---- MODULE Spec2Model ----
(***************************************************************************)
(* Model of custom_components/blnet/switch.py: the two switch entities of  *)
(* one digital output of a UVR1611 behind a BL-NET gateway.                *)
(*                                                                         *)
(*   BLNETSwitch      toggles the output                ("OutputSwitch")   *)
(*   BLNETModeSwitch  toggles automatic / manual mode   ("ModeSwitch")     *)
(*                                                                         *)
(* Both hold a reference to the shared `communication` object, of which    *)
(* the entities use last_updated(), data, turn_on, turn_off and turn_auto. *)
(* Python strings are TLA+ strings, Python dicts are functions whose       *)
(* DOMAIN is the set of keys, and Python's None is the value None below.   *)
(***************************************************************************)
EXTENDS Integers, Sequences, FiniteSets, TLC

(***************************************************************************)
(* Bounds of the model.                                                    *)
(***************************************************************************)
\* number of distinct non-None update markers the collaborator can report
MaxMarker == 1
\* longest identifier string drawn for the unique_id check
MaxIdLen == 2
\* number of entities constructed in the unique_id check
MaxMade == 2

(***************************************************************************)
(* Python values.                                                          *)
(***************************************************************************)
None == "<None>"

STATE_UNKNOWN == "unknown"
STATE_OFF == "off"
STATE_ON == "on"

\* str.format / f-string conversion of a value that is a string or None
Format(v) == IF v = None THEN "None" ELSE v

\* dict.get(key): the value under key, None when the key is missing
DictGet(d, key) == IF key \in DOMAIN d THEN d[key] ELSE None

(***************************************************************************)
(* The collaborator's observable values.                                   *)
(***************************************************************************)
Timestamp(i) == "t" \o ToString(i)
\* what communication.last_updated() can return
Markers == {None} \cup {Timestamp(i) : i \in 1..MaxMarker}

RawValues == {"EIN", "AUS"}
RawModes == {"AUTO", "HAND"}
FriendlyNames == {"Pump 1"}

\* one cached record: a dict in which a field given as None is missing
FieldOf(k, v, m, f) == IF k = "value" THEN v ELSE IF k = "mode" THEN m ELSE f
SensorRecord(v, m, f) ==
    [k \in {x \in {"value", "mode", "friendly_name"} : FieldOf(x, v, m, f) # None}
        |-> FieldOf(k, v, m, f)]
\* the records the cache can hold: complete ones, and one in which 'value' and
\* 'mode' are both missing
SensorRecords ==
    {SensorRecord(v, m, f) : v \in RawValues, m \in RawModes, f \in FriendlyNames}
    \cup {SensorRecord(None, None, f) : f \in FriendlyNames}

\* the discovered pair the two entities are built from
TheSwitchId == "3"
TheBlnetId == "Pump"
\* the handle of the shared communication object, hass.data['DATA_blnet']
TheComm == "comm"

\* communication.data: a dict from blnet_id to its record
EmptyData == [k \in {} |-> None]
DataOf(rec) == [k \in {TheBlnetId} |-> rec]
DataDicts == {EmptyData} \cup {DataOf(r) : r \in SensorRecords}

(***************************************************************************)
(* A call on the collaborator as the entity makes it: which method, with   *)
(* which argument, and whether it returned ("ok") or raised ("raise").     *)
(***************************************************************************)
Call(name, arg, result) == [name |-> name, arg |-> arg, result |-> result]
Commands == {"turn_on", "turn_off", "turn_auto"}

(***************************************************************************)
(* BLNETSwitch: the entity that toggles the digital output.                *)
(***************************************************************************)
BLNETSwitch_init(switch_id, blnet_id, comm) ==
    [blnet_id |-> blnet_id,
     id |-> switch_id,
     communication |-> comm,
     name |-> blnet_id,
     friendly_name |-> blnet_id,
     unique_id |-> Format(switch_id) \o "_" \o Format(blnet_id),
     state |-> STATE_UNKNOWN,
     assumed_state |-> TRUE,
     icon |-> None,
     mode |-> STATE_UNKNOWN,
     last_updated |-> None]

\* variant: the record is applied but the marker is not stored
BLNETSwitch_apply_forgets_marker(self, last_blnet_update, sensor_data) ==
    LET st == IF DictGet(sensor_data, "value") = "EIN" THEN STATE_ON ELSE STATE_OFF
    IN [self EXCEPT
          !.friendly_name = DictGet(sensor_data, "friendly_name"),
          !.state = st,
          !.icon = IF st = STATE_ON THEN "mdi:flash" ELSE "mdi:flash-off",
          !.mode = DictGet(sensor_data, "mode"),
          !.assumed_state = FALSE]

\* variant: the state is on unless the raw value is "AUS"
BLNETSwitch_apply_on_unless_aus(self, last_blnet_update, sensor_data) ==
    LET st == IF DictGet(sensor_data, "value") # "AUS" THEN STATE_ON ELSE STATE_OFF
    IN [self EXCEPT
          !.friendly_name = DictGet(sensor_data, "friendly_name"),
          !.state = st,
          !.icon = IF st = STATE_ON THEN "mdi:flash" ELSE "mdi:flash-off",
          !.mode = DictGet(sensor_data, "mode"),
          !.last_updated = last_blnet_update,
          !.assumed_state = FALSE]

\* the assignments of update() once a record has been found
BLNETSwitch_apply(self, last_blnet_update, sensor_data) ==
    LET st == IF DictGet(sensor_data, "value") = "EIN" THEN STATE_ON ELSE STATE_OFF
    IN [self EXCEPT
          !.friendly_name = DictGet(sensor_data, "friendly_name"),
          !.state = st,
          !.icon = IF st = STATE_ON THEN "mdi:flash" ELSE "mdi:flash-off",
          !.mode = DictGet(sensor_data, "mode"),
          !.last_updated = last_blnet_update,
          !.assumed_state = FALSE]

\* variant: the missing record is taken as a confirmation
BLNETSwitch_no_data_confirms(self) == [self EXCEPT !.assumed_state = FALSE]

\* the return of update() when the record is missing (only a warning is logged)
BLNETSwitch_no_data(self) == self

\* variant: update() stores the marker before it looks the record up
BLNETSwitch_update_stores_marker_first(self, lu, last_blnet_update, get, data) ==
    LET c1 == Call("last_updated", None, lu)
        c2 == Call("data.get", self.blnet_id, get)
        seen == [self EXCEPT !.last_updated = last_blnet_update]
    IN IF lu = "raise"
       THEN [self |-> self, calls |-> <<c1>>, outcome |-> "raised_last_updated"]
       ELSE IF last_blnet_update = self.last_updated
       THEN [self |-> self, calls |-> <<c1>>, outcome |-> "skipped"]
       ELSE IF get = "raise"
       THEN [self |-> seen, calls |-> <<c1, c2>>, outcome |-> "raised_data"]
       ELSE IF self.blnet_id \notin DOMAIN data
       THEN [self |-> BLNETSwitch_no_data(seen), calls |-> <<c1, c2>>,
             outcome |-> "no_data"]
       ELSE [self |-> BLNETSwitch_apply(self, last_blnet_update, data[self.blnet_id]),
             calls |-> <<c1, c2>>, outcome |-> "updated"]

\* update(): lu and get are the outcomes of communication.last_updated()
\* and communication.data.get(): "raise", or "ok" with the value read
BLNETSwitch_update(self, lu, last_blnet_update, get, data) ==
    LET c1 == Call("last_updated", None, lu)
        c2 == Call("data.get", self.blnet_id, get)
    IN IF lu = "raise"
       THEN [self |-> self, calls |-> <<c1>>, outcome |-> "raised_last_updated"]
       ELSE IF last_blnet_update = self.last_updated
       THEN [self |-> self, calls |-> <<c1>>, outcome |-> "skipped"]
       ELSE IF get = "raise"
       THEN [self |-> self, calls |-> <<c1, c2>>, outcome |-> "raised_data"]
       ELSE IF self.blnet_id \notin DOMAIN data
       THEN [self |-> BLNETSwitch_no_data(self), calls |-> <<c1, c2>>,
             outcome |-> "no_data"]
       ELSE [self |-> BLNETSwitch_apply(self, last_blnet_update, data[self.blnet_id]),
             calls |-> <<c1, c2>>, outcome |-> "updated"]

\* variant: turn_on() sets the state but not assumed_state
BLNETSwitch_turn_on_keeps_confirmed(self, dispatch) ==
    LET calls == <<Call("turn_on", self.id, dispatch)>>
    IN IF dispatch = "raise"
       THEN [self |-> self, calls |-> calls, outcome |-> "raised"]
       ELSE [self |-> [self EXCEPT !.state = STATE_ON],
             calls |-> calls, outcome |-> "done"]

\* turn_on(): dispatch is the outcome of communication.turn_on(self._id)
BLNETSwitch_turn_on(self, dispatch) ==
    LET calls == <<Call("turn_on", self.id, dispatch)>>
    IN IF dispatch = "raise"
       THEN [self |-> self, calls |-> calls, outcome |-> "raised"]
       ELSE [self |-> [self EXCEPT !.state = STATE_ON, !.assumed_state = TRUE],
             calls |-> calls, outcome |-> "done"]

\* variant: turn_off() forgets the marker so that the next update() reads again
BLNETSwitch_turn_off_invalidates(self, dispatch) ==
    LET calls == <<Call("turn_off", self.id, dispatch)>>
    IN IF dispatch = "raise"
       THEN [self |-> self, calls |-> calls, outcome |-> "raised"]
       ELSE [self |-> [self EXCEPT !.state = STATE_OFF, !.assumed_state = TRUE,
                                   !.last_updated = None],
             calls |-> calls, outcome |-> "done"]

\* variant: turn_off() catches the error of the dispatch and returns
BLNETSwitch_turn_off_catches(self, dispatch) ==
    LET calls == <<Call("turn_off", self.id, dispatch)>>
    IN IF dispatch = "raise"
       THEN [self |-> self, calls |-> calls, outcome |-> "done"]
       ELSE [self |-> [self EXCEPT !.state = STATE_OFF, !.assumed_state = TRUE],
             calls |-> calls, outcome |-> "done"]

\* turn_off(): dispatch is the outcome of communication.turn_off(self._id)
BLNETSwitch_turn_off(self, dispatch) ==
    LET calls == <<Call("turn_off", self.id, dispatch)>>
    IN IF dispatch = "raise"
       THEN [self |-> self, calls |-> calls, outcome |-> "raised"]
       ELSE [self |-> [self EXCEPT !.state = STATE_OFF, !.assumed_state = TRUE],
             calls |-> calls, outcome |-> "done"]

(***************************************************************************)
(* BLNETModeSwitch: the entity that toggles automatic / manual mode.       *)
(***************************************************************************)
BLNETModeSwitch_init(switch_id, blnet_id, comm) ==
    [blnet_id |-> blnet_id,
     id |-> switch_id,
     communication |-> comm,
     name |-> Format(blnet_id) \o " automated",
     friendly_name |-> blnet_id,
     unique_id |-> Format(switch_id) \o "_" \o Format(blnet_id) \o "_mode",
     state |-> STATE_UNKNOWN,
     activated |-> STATE_UNKNOWN,
     assumed_state |-> TRUE,
     icon |-> None,
     last_updated |-> None]

\* variant: the state is on only when the mode is "AUTO"
BLNETModeSwitch_apply_on_if_auto(self, last_blnet_update, sensor_data) ==
    LET st == IF DictGet(sensor_data, "mode") = "AUTO" THEN STATE_ON ELSE STATE_OFF
    IN [self EXCEPT
          !.friendly_name = Format(DictGet(sensor_data, "friendly_name")) \o " automated",
          !.state = st,
          !.icon = IF st = STATE_ON THEN "mdi:cog" ELSE "mdi:cog-off",
          !.activated = DictGet(sensor_data, "value"),
          !.last_updated = last_blnet_update,
          !.assumed_state = FALSE]

\* the assignments of update() once a record has been found
BLNETModeSwitch_apply(self, last_blnet_update, sensor_data) ==
    LET st == IF DictGet(sensor_data, "mode") # "HAND" THEN STATE_ON ELSE STATE_OFF
    IN [self EXCEPT
          !.friendly_name = Format(DictGet(sensor_data, "friendly_name")) \o " automated",
          !.state = st,
          !.icon = IF st = STATE_ON THEN "mdi:cog" ELSE "mdi:cog-off",
          !.activated = DictGet(sensor_data, "value"),
          !.last_updated = last_blnet_update,
          !.assumed_state = FALSE]

\* variant: a missing record degrades the state to unknown
BLNETModeSwitch_no_data_degrades(self) == [self EXCEPT !.state = STATE_UNKNOWN]

\* the return of update() when the record is missing (only a warning is logged)
BLNETModeSwitch_no_data(self) == self

\* variant: a poll that finds the mode manual sends turn_auto again
BLNETModeSwitch_update_reasserts(self, lu, last_blnet_update, get, data) ==
    LET c1 == Call("last_updated", None, lu)
        c2 == Call("data.get", self.blnet_id, get)
    IN IF lu = "raise"
       THEN [self |-> self, calls |-> <<c1>>, outcome |-> "raised_last_updated"]
       ELSE IF last_blnet_update = self.last_updated
       THEN [self |-> self, calls |-> <<c1>>, outcome |-> "skipped"]
       ELSE IF get = "raise"
       THEN [self |-> self, calls |-> <<c1, c2>>, outcome |-> "raised_data"]
       ELSE IF self.blnet_id \notin DOMAIN data
       THEN [self |-> BLNETModeSwitch_no_data(self), calls |-> <<c1, c2>>,
             outcome |-> "no_data"]
       ELSE [self |-> BLNETModeSwitch_apply(self, last_blnet_update, data[self.blnet_id]),
             calls |-> <<c1, c2, Call("turn_auto", self.id, "ok")>>,
             outcome |-> "updated"]

BLNETModeSwitch_update(self, lu, last_blnet_update, get, data) ==
    LET c1 == Call("last_updated", None, lu)
        c2 == Call("data.get", self.blnet_id, get)
    IN IF lu = "raise"
       THEN [self |-> self, calls |-> <<c1>>, outcome |-> "raised_last_updated"]
       ELSE IF last_blnet_update = self.last_updated
       THEN [self |-> self, calls |-> <<c1>>, outcome |-> "skipped"]
       ELSE IF get = "raise"
       THEN [self |-> self, calls |-> <<c1, c2>>, outcome |-> "raised_data"]
       ELSE IF self.blnet_id \notin DOMAIN data
       THEN [self |-> BLNETModeSwitch_no_data(self), calls |-> <<c1, c2>>,
             outcome |-> "no_data"]
       ELSE [self |-> BLNETModeSwitch_apply(self, last_blnet_update, data[self.blnet_id]),
             calls |-> <<c1, c2>>, outcome |-> "updated"]

\* variant: turn_on() sets the state before it sends the command
BLNETModeSwitch_turn_on_writes_first(self, dispatch) ==
    LET calls == <<Call("turn_auto", self.id, dispatch)>>
        written == [self EXCEPT !.state = STATE_ON, !.assumed_state = TRUE]
    IN IF dispatch = "raise"
       THEN [self |-> written, calls |-> calls, outcome |-> "raised"]
       ELSE [self |-> written, calls |-> calls, outcome |-> "done"]

\* variant: turn_on() sends the raw "on" command instead of turn_auto
BLNETModeSwitch_turn_on_sends_on(self, dispatch) ==
    LET calls == <<Call("turn_on", self.id, dispatch)>>
    IN IF dispatch = "raise"
       THEN [self |-> self, calls |-> calls, outcome |-> "raised"]
       ELSE [self |-> [self EXCEPT !.state = STATE_ON, !.assumed_state = TRUE],
             calls |-> calls, outcome |-> "done"]

\* turn_on(): dispatch is the outcome of communication.turn_auto(self._id)
BLNETModeSwitch_turn_on(self, dispatch) ==
    LET calls == <<Call("turn_auto", self.id, dispatch)>>
    IN IF dispatch = "raise"
       THEN [self |-> self, calls |-> calls, outcome |-> "raised"]
       ELSE [self |-> [self EXCEPT !.state = STATE_ON, !.assumed_state = TRUE],
             calls |-> calls, outcome |-> "done"]

\* variant: the two branches of turn_off() are swapped
BLNETModeSwitch_manual_cmd_swapped(self) ==
    IF self.activated = "EIN" THEN "turn_off" ELSE "turn_on"

\* the command turn_off() picks from the mirrored raw value
BLNETModeSwitch_manual_cmd(self) ==
    IF self.activated = "EIN" THEN "turn_on" ELSE "turn_off"

\* variant: turn_off() sets the state but not assumed_state
BLNETModeSwitch_turn_off_keeps_confirmed(self, dispatch) ==
    LET calls == <<Call(BLNETModeSwitch_manual_cmd(self), self.id, dispatch)>>
    IN IF dispatch = "raise"
       THEN [self |-> self, calls |-> calls, outcome |-> "raised"]
       ELSE [self |-> [self EXCEPT !.state = STATE_OFF],
             calls |-> calls, outcome |-> "done"]

\* turn_off(): dispatch is the outcome of the one command it sends
BLNETModeSwitch_turn_off(self, dispatch) ==
    LET calls == <<Call(BLNETModeSwitch_manual_cmd(self), self.id, dispatch)>>
    IN IF dispatch = "raise"
       THEN [self |-> self, calls |-> calls, outcome |-> "raised"]
       ELSE [self |-> [self EXCEPT !.state = STATE_OFF, !.assumed_state = TRUE],
             calls |-> calls, outcome |-> "done"]

(***************************************************************************)
(* The physical output behind the collaborator: what a dispatched command  *)
(* does to it.  turn_on / turn_off set the value and put the output into   *)
(* manual mode, turn_auto hands it back to the controller.                 *)
(***************************************************************************)
DeviceAfter(dev, call) ==
    IF call.result = "raise" THEN dev
    ELSE IF call.name = "turn_on" THEN [value |-> "EIN", mode |-> "HAND"]
    ELSE IF call.name = "turn_off" THEN [value |-> "AUS", mode |-> "HAND"]
    ELSE IF call.name = "turn_auto" THEN [dev EXCEPT !.mode = "AUTO"]
    ELSE dev

(***************************************************************************)
(* State.                                                                  *)
(***************************************************************************)
VARIABLES
    switch,        \* the BLNETSwitch instance
    modeswitch,    \* the BLNETModeSwitch instance
    comm_marker,   \* what communication.last_updated() returns
    comm_data,     \* communication.data
    device,        \* the physical output: [value, mode]
    calls,         \* the collaborator calls made by the last operation, in order
    ret,           \* the last step: who acted, which operation, how it ended
    last_poll,     \* observer (SpecSolo): the observed entity and its latest update()
    made           \* entities constructed or registered so far, in order

vars == <<switch, modeswitch, comm_marker, comm_data, device, calls, ret, last_poll,
          made>>

Outcomes == {"raise", "ok"}

Init ==
    /\ switch = BLNETSwitch_init(TheSwitchId, TheBlnetId, TheComm)
    /\ modeswitch = BLNETModeSwitch_init(TheSwitchId, TheBlnetId, TheComm)
    /\ comm_marker = None
    /\ comm_data = EmptyData
    /\ device \in [value : RawValues, mode : RawModes]
    /\ calls = <<>>
    /\ ret = [ent |-> "none", op |-> "init", outcome |-> "done"]
    /\ last_poll = [ent |-> "none", marker |-> None, outcome |-> "none", read |-> <<>>,
                    prev |-> "none"]
    /\ made = <<>>

\* the one command of an operation reaches the output
Dispatch(r) == device' = DeviceAfter(device, r.calls[1])

(***************************************************************************)
(* Operations of BLNETSwitch.                                              *)
(***************************************************************************)
Switch_update ==
    \E lu \in Outcomes, get \in Outcomes :
        LET r == BLNETSwitch_update(switch, lu, comm_marker, get, comm_data)
        IN /\ switch' = r.self
           /\ calls' = r.calls
           /\ ret' = [ent |-> "switch", op |-> "update", outcome |-> r.outcome]
           /\ UNCHANGED <<modeswitch, comm_marker, comm_data, device, made>>

\* variant: _state and _assumed_state are attributes shared by the two entities
Switch_turn_on_shared_state ==
    \E dispatch \in Outcomes :
        LET r == BLNETSwitch_turn_on(switch, dispatch)
        IN /\ switch' = r.self
           /\ modeswitch' = [modeswitch EXCEPT !.state = r.self.state,
                                               !.assumed_state = r.self.assumed_state]
           /\ calls' = r.calls
           /\ Dispatch(r)
           /\ ret' = [ent |-> "switch", op |-> "turn_on", outcome |-> r.outcome]
           /\ UNCHANGED <<comm_marker, comm_data, made>>

Switch_turn_on ==
    \E dispatch \in Outcomes :
        LET r == BLNETSwitch_turn_on(switch, dispatch)
        IN /\ switch' = r.self
           /\ calls' = r.calls
           /\ Dispatch(r)
           /\ ret' = [ent |-> "switch", op |-> "turn_on", outcome |-> r.outcome]
           /\ UNCHANGED <<modeswitch, comm_marker, comm_data, made>>

Switch_turn_off ==
    \E dispatch \in Outcomes :
        LET r == BLNETSwitch_turn_off(switch, dispatch)
        IN /\ switch' = r.self
           /\ calls' = r.calls
           /\ Dispatch(r)
           /\ ret' = [ent |-> "switch", op |-> "turn_off", outcome |-> r.outcome]
           /\ UNCHANGED <<modeswitch, comm_marker, comm_data, made>>

(***************************************************************************)
(* Operations of BLNETModeSwitch.                                          *)
(***************************************************************************)
ModeSwitch_update ==
    \E lu \in Outcomes, get \in Outcomes :
        LET r == BLNETModeSwitch_update(modeswitch, lu, comm_marker, get, comm_data)
        IN /\ modeswitch' = r.self
           /\ calls' = r.calls
           /\ ret' = [ent |-> "modeswitch", op |-> "update", outcome |-> r.outcome]
           /\ UNCHANGED <<switch, comm_marker, comm_data, device, made>>

ModeSwitch_turn_on ==
    \E dispatch \in Outcomes :
        LET r == BLNETModeSwitch_turn_on(modeswitch, dispatch)
        IN /\ modeswitch' = r.self
           /\ calls' = r.calls
           /\ Dispatch(r)
           /\ ret' = [ent |-> "modeswitch", op |-> "turn_on", outcome |-> r.outcome]
           /\ UNCHANGED <<switch, comm_marker, comm_data, made>>

ModeSwitch_turn_off ==
    \E dispatch \in Outcomes :
        LET r == BLNETModeSwitch_turn_off(modeswitch, dispatch)
        IN /\ modeswitch' = r.self
           /\ calls' = r.calls
           /\ Dispatch(r)
           /\ ret' = [ent |-> "modeswitch", op |-> "turn_off", outcome |-> r.outcome]
           /\ UNCHANGED <<switch, comm_marker, comm_data, made>>

(***************************************************************************)
(* The environment: the collaborator refreshes its cache, and the          *)
(* controller switches an output that is in automatic mode.                *)
(***************************************************************************)
\* a step of the environment: no entity operation runs, no command is sent
EnvStep ==
    /\ calls' = <<>>
    /\ ret' = [ent |-> "env", op |-> "env", outcome |-> "done"]

\* the cache is replaced; the marker is not touched (the collaborator sets the
\* two one after the other)
Comm_set_data ==
    \E d \in DataDicts :
        /\ comm_data' = d
        /\ EnvStep
        /\ UNCHANGED <<switch, modeswitch, comm_marker, device, made>>

\* the marker of the last refresh is set
Comm_set_marker ==
    \E m \in Markers :
        /\ comm_marker' = m
        /\ EnvStep
        /\ UNCHANGED <<switch, modeswitch, comm_data, device, made>>

Controller_switches ==
    /\ device.mode = "AUTO"
    /\ device' = [device EXCEPT !.value = IF @ = "EIN" THEN "AUS" ELSE "EIN"]
    /\ EnvStep
    /\ UNCHANGED <<switch, modeswitch, comm_marker, comm_data, made>>

\* both entities of the channel, driven in any interleaving
Next ==
    \/ Switch_update /\ UNCHANGED last_poll
    \/ Switch_turn_on /\ UNCHANGED last_poll
    \/ Switch_turn_off /\ UNCHANGED last_poll
    \/ ModeSwitch_update /\ UNCHANGED last_poll
    \/ ModeSwitch_turn_on /\ UNCHANGED last_poll
    \/ ModeSwitch_turn_off /\ UNCHANGED last_poll
    \/ Comm_set_data /\ UNCHANGED last_poll
    \/ Comm_set_marker /\ UNCHANGED last_poll
    \/ Controller_switches /\ UNCHANGED last_poll

Spec == Init /\ [][Next]_vars

(***************************************************************************)
(* One entity driven alone against the environment.  The two entities      *)
(* share no field, and the environment already changes the cache and the   *)
(* marker in every possible way, so the fields of one entity are studied   *)
(* with the other one left as constructed.  last_poll names the observed   *)
(* entity and remembers its latest update() call: the marker that          *)
(* last_updated() returned (None when that call raised) and how the call   *)
(* ended.                                                                  *)
(***************************************************************************)
Entities == {"switch", "modeswitch"}

InitSolo ==
    /\ switch = BLNETSwitch_init(TheSwitchId, TheBlnetId, TheComm)
    /\ modeswitch = BLNETModeSwitch_init(TheSwitchId, TheBlnetId, TheComm)
    /\ comm_marker = None
    /\ comm_data = EmptyData
    /\ device \in [value : RawValues, mode : RawModes]
    /\ calls = <<>>
    /\ ret = [ent |-> "none", op |-> "init", outcome |-> "done"]
    /\ last_poll \in {[ent |-> e, marker |-> None, outcome |-> "none", read |-> <<>>,
                        prev |-> "none"] : e \in Entities}
    /\ made = <<>>

\* read keeps the marker and the record of the latest update() that found a
\* record (<<>> until there is one); prev is the outcome of the update()
\* before the latest when that one read the same marker, "other" when not
Observe ==
    last_poll' =
        IF ret'.op # "update" THEN last_poll
        ELSE [ent |-> ret'.ent, outcome |-> ret'.outcome,
              marker |-> IF ret'.outcome = "raised_last_updated" THEN None
                         ELSE comm_marker,
              read |-> IF ret'.outcome = "updated"
                       THEN <<[marker |-> comm_marker, record |-> comm_data[TheBlnetId]]>>
                       ELSE last_poll.read,
              prev |-> IF /\ last_poll.outcome \in {"skipped", "no_data", "updated"}
                          /\ ret'.outcome \in {"skipped", "no_data", "updated"}
                          /\ last_poll.marker = comm_marker
                       THEN last_poll.outcome
                       ELSE "other"]

NextSolo ==
    \/ last_poll.ent = "switch" /\ Switch_update /\ Observe
    \/ last_poll.ent = "switch" /\ Switch_turn_on /\ Observe
    \/ last_poll.ent = "switch" /\ Switch_turn_off /\ Observe
    \/ last_poll.ent = "modeswitch" /\ ModeSwitch_update /\ Observe
    \/ last_poll.ent = "modeswitch" /\ ModeSwitch_turn_on /\ Observe
    \/ last_poll.ent = "modeswitch" /\ ModeSwitch_turn_off /\ Observe
    \/ Comm_set_data /\ UNCHANGED last_poll
    \/ Comm_set_marker /\ UNCHANGED last_poll
    \/ Controller_switches /\ UNCHANGED last_poll

SpecSolo == InitSolo /\ [][NextSolo]_vars

(***************************************************************************)
(* Construction of entities from arbitrary (switch_id, blnet_id) pairs:    *)
(* what unique_id the constructors derive.                                 *)
(***************************************************************************)
IdChars == {"3", "_"}

RECURSIVE Strings(_)
\* the non-empty strings over IdChars of at most n characters
Strings(n) ==
    IF n <= 1 THEN IdChars
    ELSE LET shorter == Strings(n - 1)
         IN shorter \cup {x \o c : x \in shorter, c \in IdChars}

SwitchIds == Strings(MaxIdLen)
BlnetIds == Strings(MaxIdLen) \cup {x \o "_mode" : x \in Strings(MaxIdLen)}

\* one constructor call; the entity is kept with its kind
Constructed(kind, switch_id, blnet_id, comm) ==
    [kind |-> kind,
     entity |-> IF kind = "switch" THEN BLNETSwitch_init(switch_id, blnet_id, comm)
                ELSE BLNETModeSwitch_init(switch_id, blnet_id, comm)]

Construct ==
    /\ Len(made) < MaxMade
    /\ \E kind \in Entities, switch_id \in SwitchIds, blnet_id \in BlnetIds :
           made' = Append(made, Constructed(kind, switch_id, blnet_id, TheComm))
    /\ UNCHANGED <<switch, modeswitch, comm_marker, comm_data, device, calls, ret,
                   last_poll>>

NextUid == Construct

SpecUid == Init /\ [][NextUid]_vars

(***************************************************************************)
(* setup_platform(hass, config, add_devices, discovery_info).              *)
(* discovery_info is given as a sequence: <<>> is None, <<d>> is the dict  *)
(* d with the keys 'id' and 'name'.  hass_data is hass.data, which holds   *)
(* the communication object under 'DATA_blnet' by the time the platform    *)
(* is discovered.  The result: the value returned, the list handed to      *)
(* add_devices (made keeps the kind of each entity with it), and the       *)
(* reads and calls made on the host.                                       *)
(***************************************************************************)
DOMAIN_blnet == "blnet"
DataKey == "DATA_" \o DOMAIN_blnet

Comms == {TheComm, "other comm"}
HassData == {[k \in {DataKey} |-> c] : c \in Comms}
DiscoveryInfos ==
    {<<>>} \cup {<<[id |-> i, name |-> n]>> : i \in SwitchIds, n \in BlnetIds}

\* variant: the mode switch is built with id and name swapped
setup_platform_swaps(hass_data, discovery_info) ==
    IF discovery_info = <<>>
    THEN [returned |-> FALSE, added |-> <<>>, calls |-> <<>>]
    ELSE LET switch_id == discovery_info[1]["id"]
             blnet_id == discovery_info[1]["name"]
             comm == hass_data[DataKey]
         IN [returned |-> TRUE,
             added |-> <<Constructed("switch", switch_id, blnet_id, comm),
                         Constructed("modeswitch", blnet_id, switch_id, comm)>>,
             calls |-> <<Call("hass.data", DataKey, "ok"),
                         Call("add_devices", TRUE, "ok")>>]

setup_platform(hass_data, discovery_info) ==
    IF discovery_info = <<>>
    THEN [returned |-> FALSE, added |-> <<>>, calls |-> <<>>]
    ELSE LET switch_id == discovery_info[1]["id"]
             blnet_id == discovery_info[1]["name"]
             comm == hass_data[DataKey]
         IN [returned |-> TRUE,
             added |-> <<Constructed("switch", switch_id, blnet_id, comm),
                         Constructed("modeswitch", switch_id, blnet_id, comm)>>,
             calls |-> <<Call("hass.data", DataKey, "ok"),
                         Call("add_devices", TRUE, "ok")>>]

\* the host sets the platform up, once per discovered output; ret keeps the
\* arguments of the call with the value returned
Setup_platform ==
    /\ Len(made) < MaxMade
    /\ \E hass_data \in HassData, discovery_info \in DiscoveryInfos :
           LET r == setup_platform(hass_data, discovery_info)
           IN /\ made' = made \o r.added
              /\ calls' = r.calls
              /\ ret' = [ent |-> "platform", op |-> "setup_platform",
                         outcome |-> "done", returned |-> r.returned,
                         hass_data |-> hass_data, discovery_info |-> discovery_info]
    /\ UNCHANGED <<switch, modeswitch, comm_marker, comm_data, device, last_poll>>

NextSetup == Setup_platform

SpecSetup == Init /\ [][NextSetup]_vars

(***************************************************************************)
(* Vocabulary of the properties.                                           *)
(***************************************************************************)
\* the entity named e
Ent(e) == IF e = "switch" THEN switch ELSE modeswitch

\* this step is the operation op of entity e ending with outcome o
Did(e, op, o) == ret'.ent = e /\ ret'.op = op /\ ret'.outcome = o

\* the last step was the operation op of entity e ending with outcome o
Done(e, op, o) == ret.ent = e /\ ret.op = op /\ ret.outcome = o

\* outcomes with which an operation hands an error to its caller
Raised == {"raised", "raised_last_updated", "raised_data"}

\* the icon that goes with a display state of entity e
IconOf(e, state) ==
    IF e = "switch"
    THEN (IF state = STATE_ON THEN "mdi:flash" ELSE "mdi:flash-off")
    ELSE (IF state = STATE_ON THEN "mdi:cog" ELSE "mdi:cog-off")

\* the display state that update() of entity e derives from a record
DerivedState(e, rec) ==
    IF e = "switch"
    THEN (IF "value" \in DOMAIN rec /\ rec["value"] = "EIN" THEN STATE_ON ELSE STATE_OFF)
    ELSE (IF "mode" \in DOMAIN rec /\ rec["mode"] = "HAND" THEN STATE_OFF ELSE STATE_ON)

(***************************************************************************)
(* C1: an update() that looks the record up and finds none leaves every    *)
(* field of the entity as it was (state, icon, friendly name, mode /       *)
(* activated, last_updated, assumed_state); this holds for both entities.  *)
(***************************************************************************)
C1_NoDataKeepsFields ==
    [][\A e \in Entities : Did(e, "update", "no_data") => Ent(e)' = Ent(e)]_vars

\* reached: a missed lookup on an entity showing an optimistic ON over a
\* polled record
C1_Witness ==
    /\ Done("switch", "update", "no_data")
    /\ switch.state = STATE_ON
    /\ switch.assumed_state
    /\ switch.icon = "mdi:flash-off"
    /\ switch.last_updated # comm_marker

(***************************************************************************)
(* C2: assumed_state is true right after construction; the only step that  *)
(* takes it from true to false is an update() that found a record; after   *)
(* every turn_on() / turn_off() whose dispatch returned it is true; no     *)
(* other step changes it.  So it is true exactly when the state was last   *)
(* set by a command, or never set, rather than by a successful poll.       *)
(***************************************************************************)
C2_AssumedStateDiscipline ==
    /\ switch.assumed_state /\ modeswitch.assumed_state
    /\ [][\A e \in Entities :
            Ent(e)'.assumed_state =
                IF Did(e, "turn_on", "done") \/ Did(e, "turn_off", "done") THEN TRUE
                ELSE IF Did(e, "update", "updated") THEN FALSE
                ELSE Ent(e).assumed_state]_vars

\* reached: a command re-assumes a state that a poll had confirmed
C2_Witness ==
    /\ Done("switch", "turn_off", "done")
    /\ switch.assumed_state
    /\ switch.last_updated # None
    /\ switch.icon = "mdi:flash"

(***************************************************************************)
(* C3 as stated: when update() is called twice on an entity and            *)
(* last_updated() returns the same marker on both calls, the second call   *)
(* changes no field, however the first call ended.                         *)
(***************************************************************************)
C3_SameMarkerSecondPollIdle ==
    [][\A e \in Entities :
          (/\ last_poll.ent = e
           /\ last_poll.outcome \in {"skipped", "no_data", "updated"}
           /\ ret'.ent = e /\ ret'.op = "update"
           /\ ret'.outcome # "raised_last_updated"
           /\ last_poll.marker = comm_marker)
          => Ent(e)' = Ent(e)]_vars

(***************************************************************************)
(* C3 amended: when update() is called twice on an entity with the same    *)
(* marker on both calls, and the first call returned at the marker check   *)
(* or found a record, the second call changes no field, whatever the       *)
(* cache holds by then.                                                    *)
(***************************************************************************)
C3_SameMarkerAfterStoredPollIdle ==
    [][\A e \in Entities :
          (/\ last_poll.ent = e
           /\ last_poll.outcome \in {"skipped", "updated"}
           /\ ret'.ent = e /\ ret'.op = "update"
           /\ ret'.outcome # "raised_last_updated"
           /\ last_poll.marker = comm_marker)
          => Ent(e)' = Ent(e)]_vars

\* reached: a second poll under the marker of a successful one is skipped
\* although the cache now holds a record with another mode
C3_Witness ==
    /\ Done("switch", "update", "skipped")
    /\ switch.last_updated = comm_marker
    /\ switch.last_updated # None
    /\ TheBlnetId \in DOMAIN comm_data
    /\ DictGet(comm_data[TheBlnetId], "mode") # switch.mode
    /\ ~switch.assumed_state

(***************************************************************************)
(* C4 as stated: the state is one of on / off / unknown, and once the      *)
(* entity's first update() has returned the state is not unknown.          *)
(***************************************************************************)
C4_KnownAfterFirstPoll ==
    \A e \in Entities :
        /\ Ent(e).state \in {STATE_ON, STATE_OFF, STATE_UNKNOWN}
        /\ (last_poll.ent = e /\ last_poll.outcome \in {"skipped", "no_data", "updated"})
               => Ent(e).state # STATE_UNKNOWN

(***************************************************************************)
(* C4 amended: the state is always one of on / off / unknown; no step      *)
(* takes it to unknown; and after an update() that found a record, or a    *)
(* turn_on() / turn_off() whose dispatch returned, it is not unknown.      *)
(* (An update() that returns at the marker check or finds no record        *)
(* leaves an unknown state unknown.)                                       *)
(***************************************************************************)
C4_UnknownOnlyUntilFirstSet ==
    /\ [](\A e \in Entities : Ent(e).state \in {STATE_ON, STATE_OFF, STATE_UNKNOWN})
    /\ [][\A e \in Entities :
            /\ Ent(e)'.state = STATE_UNKNOWN => Ent(e).state = STATE_UNKNOWN
            /\ (\/ Did(e, "update", "updated")
                \/ Did(e, "turn_on", "done")
                \/ Did(e, "turn_off", "done"))
                   => Ent(e)'.state # STATE_UNKNOWN]_vars

\* reached: a polled state is kept by a later update() that finds no record
C4_Witness ==
    /\ Done("modeswitch", "update", "no_data")
    /\ modeswitch.state = STATE_ON
    /\ ~modeswitch.assumed_state
    /\ modeswitch.last_updated # comm_marker

(***************************************************************************)
(* C5: once the state has been set (it is not unknown), the icon is the    *)
(* one that goes with the state: mdi:flash / mdi:flash-off for the         *)
(* switch, mdi:cog / mdi:cog-off for the mode switch; also right after     *)
(* turn_on() / turn_off().                                                 *)
(***************************************************************************)
C5_IconFollowsState ==
    \A e \in Entities :
        Ent(e).state # STATE_UNKNOWN => Ent(e).icon = IconOf(e, Ent(e).state)

(***************************************************************************)
(* C6: BLNETSwitch.turn_on(), BLNETSwitch.turn_off() and                   *)
(* BLNETModeSwitch.turn_on(), from any reachable state, each make exactly  *)
(* one collaborator call, the command turn_on / turn_off / turn_auto with  *)
(* the entity's own id, and, the dispatch having returned, leave the state *)
(* on / off / on with assumed_state true.                                  *)
(***************************************************************************)
C6_Cases ==
    {[ent |-> "switch", op |-> "turn_on", cmd |-> "turn_on", state |-> STATE_ON],
     [ent |-> "switch", op |-> "turn_off", cmd |-> "turn_off", state |-> STATE_OFF],
     [ent |-> "modeswitch", op |-> "turn_on", cmd |-> "turn_auto", state |-> STATE_ON]}

C6_CommandThenOptimisticState ==
    [][\A c \in C6_Cases :
          (ret'.ent = c.ent /\ ret'.op = c.op) =>
              /\ Len(calls') = 1
              /\ calls'[1].name = c.cmd
              /\ calls'[1].arg = Ent(c.ent).id
              /\ ret'.outcome = "done" =>
                     /\ Ent(c.ent)'.state = c.state
                     /\ Ent(c.ent)'.assumed_state]_vars

\* reached: the mode switch, polled as manual, is set to automatic
C6_Witness ==
    /\ Done("modeswitch", "turn_on", "done")
    /\ calls = <<Call("turn_auto", TheSwitchId, "ok")>>
    /\ modeswitch.icon = "mdi:cog-off"
    /\ modeswitch.state = STATE_ON
    /\ modeswitch.assumed_state

(***************************************************************************)
(* C7: BLNETModeSwitch.turn_off(), from any reachable state, makes exactly *)
(* one collaborator call for its own id: turn_on when the mirrored raw     *)
(* value is "EIN", turn_off otherwise (also while it is still the initial  *)
(* unknown), never turn_auto; the dispatch having returned, the state is   *)
(* off and assumed_state is true.                                          *)
(***************************************************************************)
C7_ManualKeepsMirroredValue ==
    [][(ret'.ent = "modeswitch" /\ ret'.op = "turn_off") =>
          /\ Len(calls') = 1
          /\ calls'[1].name =
                 (IF modeswitch.activated = "EIN" THEN "turn_on" ELSE "turn_off")
          /\ calls'[1].arg = modeswitch.id
          /\ ret'.outcome = "done" =>
                 /\ modeswitch'.state = STATE_OFF
                 /\ modeswitch'.assumed_state]_vars

\* reached: manual mode is asked for before any poll has found a record
C7_Witness ==
    /\ Done("modeswitch", "turn_off", "done")
    /\ modeswitch.activated = STATE_UNKNOWN
    /\ calls = <<Call("turn_off", TheSwitchId, "ok")>>
    /\ modeswitch.state = STATE_OFF
    /\ modeswitch.assumed_state

(***************************************************************************)
(* C8: in every interleaving of the operations of both entities, cache     *)
(* refreshes and the controller, the command that                          *)
(* BLNETModeSwitch.turn_off() sends is the one matching the output's       *)
(* current value, so the value of the output is the same before and after  *)
(* the call.                                                               *)
(***************************************************************************)
C8_ManualKeepsOutputValue ==
    [][Did("modeswitch", "turn_off", "done") =>
          /\ calls'[1].name = (IF device.value = "EIN" THEN "turn_on" ELSE "turn_off")
          /\ device'.value = device.value]_vars

(***************************************************************************)
(* C9: unique_id is injective: two constructed entities with the same      *)
(* unique_id are of the same kind and were built from the same switch_id   *)
(* and the same blnet_id.                                                  *)
(***************************************************************************)
C9_UniqueIdInjective ==
    \A i, j \in DOMAIN made :
        made[i].entity.unique_id = made[j].entity.unique_id =>
            /\ made[i].kind = made[j].kind
            /\ made[i].entity.id = made[j].entity.id
            /\ made[i].entity.blnet_id = made[j].entity.blnet_id

(***************************************************************************)
(* C10 as stated: update(), turn_on() and turn_off() of both entities      *)
(* return normally whatever the collaborator calls they make do.           *)
(***************************************************************************)
C10_NeverRaises ==
    ret.ent \in Entities => ret.outcome \notin Raised

(***************************************************************************)
(* C10 amended: the operations catch nothing and raise nothing of their    *)
(* own: an operation returns normally when every collaborator call it      *)
(* makes returns, and when a call raises (last_updated, the data lookup or *)
(* the command dispatch) the operation stops there and the error reaches   *)
(* the caller.                                                             *)
(***************************************************************************)
C10_RaisesWhatCollaboratorRaises ==
    ret.ent \in Entities =>
        /\ Len(calls) >= 1
        /\ \A i \in 1..(Len(calls) - 1) : calls[i].result = "ok"
        /\ ret.outcome \in Raised <=> calls[Len(calls)].result = "raise"

\* reached: a failing dispatch of the mode switch's turn_off()
C10_Witness ==
    /\ Done("modeswitch", "turn_off", "raised")
    /\ calls = <<Call("turn_on", TheSwitchId, "raise")>>
    /\ modeswitch.activated = "EIN"
    /\ modeswitch.state = STATE_ON

(***************************************************************************)
(* C11: setup_platform without discovery_info returns False, registers no  *)
(* entity and reads nothing from the host; with discovery_info it returns  *)
(* True and registers exactly one BLNETSwitch and one BLNETModeSwitch,     *)
(* both built from the discovered id, the discovered name and the          *)
(* communication object that hass.data holds.                              *)
(***************************************************************************)
C11_SetupRegistersThePair ==
    [][ret'.op = "setup_platform" =>
          IF ret'.discovery_info = <<>>
          THEN /\ ret'.returned = FALSE
               /\ made' = made
               /\ calls' = <<>>
          ELSE LET d == ret'.discovery_info[1]
                   n == Len(made)
               IN /\ ret'.returned = TRUE
                  /\ Len(made') = n + 2
                  /\ SubSeq(made', 1, n) = made
                  /\ {made'[n + 1].kind, made'[n + 2].kind} = Entities
                  /\ \A i \in {n + 1, n + 2} :
                        /\ made'[i].entity.id = d.id
                        /\ made'[i].entity.blnet_id = d.name
                        /\ made'[i].entity.communication = ret'.hass_data[DataKey]]_vars

\* reached: a pair registered on the collaborator handed in by the host
C11_Witness ==
    /\ ret.op = "setup_platform"
    /\ ret.returned = TRUE
    /\ Len(made) = 2
    /\ made[1].kind = "switch" /\ made[2].kind = "modeswitch"
    /\ made[1].entity.id = "3" /\ made[2].entity.blnet_id = "3_"
    /\ made[2].entity.communication = "other comm"
    /\ made[2].entity.unique_id = "3_3__mode"

(***************************************************************************)
(* C12: the two entities of a channel do not touch each other's fields:    *)
(* no update(), turn_on() or turn_off() of the switch changes a field of   *)
(* the mode switch, and none of the mode switch changes a field of the     *)
(* switch, in any interleaving; what the two share is the collaborator     *)
(* that receives their commands.                                           *)
(***************************************************************************)
C12_EntitiesOwnTheirFields ==
    [][/\ ret'.ent = "switch" => modeswitch' = modeswitch
       /\ ret'.ent = "modeswitch" => switch' = switch]_vars

\* reached: the switch is turned on, and sends its command, while the mode
\* switch shows a polled manual mode
C12_Witness ==
    /\ Done("switch", "turn_on", "done")
    /\ calls = <<Call("turn_on", TheSwitchId, "ok")>>
    /\ switch.state = STATE_ON
    /\ modeswitch.state = STATE_OFF
    /\ ~modeswitch.assumed_state
    /\ modeswitch.activated = "AUS"
    /\ device.value = "EIN"

(***************************************************************************)
(* C13: update() of either entity sends no command (turn_on, turn_off,     *)
(* turn_auto) and leaves the collaborator's data and marker, and the       *)
(* output, as they were; a step that sends a command is a turn_on() or     *)
(* turn_off() of an entity.                                                *)
(***************************************************************************)
C13_PollOnlyReads ==
    [][/\ ret'.op = "update" =>
            /\ \A i \in DOMAIN calls' : calls'[i].name \notin Commands
            /\ comm_data' = comm_data
            /\ comm_marker' = comm_marker
            /\ device' = device
       /\ (\E i \in DOMAIN calls' : calls'[i].name \in Commands) =>
            /\ ret'.ent \in Entities
            /\ ret'.op \in {"turn_on", "turn_off"}]_vars

\* reached: a poll that applied a record, having only read the collaborator
C13_Witness ==
    /\ Done("modeswitch", "update", "updated")
    /\ calls = <<Call("last_updated", None, "ok"), Call("data.get", TheBlnetId, "ok")>>
    /\ modeswitch.state = STATE_OFF
    /\ modeswitch.last_updated = comm_marker
    /\ comm_data = DataOf(SensorRecord("EIN", "HAND", "Pump 1"))

(***************************************************************************)
(* C14: a BLNETSwitch.update() that passes the marker check and finds a    *)
(* record sets, from any prior state: state on and icon mdi:flash when the *)
(* record's value is "EIN", state off and icon mdi:flash-off for any other *)
(* value or none; mode and friendly_name as in the record; last_updated    *)
(* the marker read at the start of the call; assumed_state false.          *)
(***************************************************************************)
C14_SwitchPollAppliesRecord ==
    [][Did("switch", "update", "updated") =>
          LET rec == comm_data[TheBlnetId]
              on == "value" \in DOMAIN rec /\ rec["value"] = "EIN"
          IN /\ switch'.state = (IF on THEN STATE_ON ELSE STATE_OFF)
             /\ switch'.icon = (IF on THEN "mdi:flash" ELSE "mdi:flash-off")
             /\ switch'.mode = (IF "mode" \in DOMAIN rec THEN rec["mode"] ELSE None)
             /\ switch'.friendly_name = rec["friendly_name"]
             /\ switch'.last_updated = comm_marker
             /\ switch'.assumed_state = FALSE]_vars

\* reached: a record without value and mode polled as off
C14_Witness ==
    /\ Done("switch", "update", "updated")
    /\ comm_data = DataOf(SensorRecord(None, None, "Pump 1"))
    /\ switch.state = STATE_OFF
    /\ switch.icon = "mdi:flash-off"
    /\ switch.mode = None
    /\ switch.friendly_name = "Pump 1"
    /\ switch.last_updated = Timestamp(1)

(***************************************************************************)
(* C15: a BLNETModeSwitch.update() that passes the marker check and finds  *)
(* a record sets, from any prior state: state off when the record's mode   *)
(* is "HAND", on for every other mode or none; activated the record's raw  *)
(* value; last_updated the marker read at the start of the call;           *)
(* assumed_state false.                                                    *)
(***************************************************************************)
C15_ModePollAppliesRecord ==
    [][Did("modeswitch", "update", "updated") =>
          LET rec == comm_data[TheBlnetId]
              manual == "mode" \in DOMAIN rec /\ rec["mode"] = "HAND"
          IN /\ modeswitch'.state = (IF manual THEN STATE_OFF ELSE STATE_ON)
             /\ modeswitch'.activated =
                    (IF "value" \in DOMAIN rec THEN rec["value"] ELSE None)
             /\ modeswitch'.last_updated = comm_marker
             /\ modeswitch'.assumed_state = FALSE]_vars

\* reached: a record without a mode polled as automatic
C15_Witness ==
    /\ Done("modeswitch", "update", "updated")
    /\ comm_data = DataOf(SensorRecord(None, None, "Pump 1"))
    /\ modeswitch.state = STATE_ON
    /\ modeswitch.activated = None
    /\ modeswitch.last_updated = Timestamp(1)

(***************************************************************************)
(* C16: for both entities, turn_on() and turn_off() never change           *)
(* last_updated; an update() made while the collaborator's marker equals   *)
(* last_updated, or while the record is absent, leaves state and           *)
(* assumed_state as they were, so a commanded state stays with             *)
(* assumed_state true across any number of such polls; an update() that    *)
(* sees another marker and finds the record sets the state derived from    *)
(* the record, whatever was commanded, and clears assumed_state.           *)
(***************************************************************************)
C16_OptimisticUntilConfirmed ==
    [][\A e \in Entities :
          /\ (ret'.ent = e /\ ret'.op \in {"turn_on", "turn_off"}) =>
                 Ent(e)'.last_updated = Ent(e).last_updated
          /\ (ret'.ent = e /\ ret'.op = "update") =>
                 IF \/ comm_marker = Ent(e).last_updated
                    \/ TheBlnetId \notin DOMAIN comm_data
                    \/ ret'.outcome \in Raised
                 THEN /\ Ent(e)'.state = Ent(e).state
                      /\ Ent(e)'.assumed_state = Ent(e).assumed_state
                 ELSE /\ Ent(e)'.state = DerivedState(e, comm_data[TheBlnetId])
                      /\ Ent(e)'.assumed_state = FALSE]_vars

\* reached: the switch, polled as off and then turned on, still shows the
\* commanded state after a poll under a new marker that found no record
C16_Witness ==
    /\ Done("switch", "update", "no_data")
    /\ switch.icon = "mdi:flash-off"
    /\ switch.state = STATE_ON
    /\ switch.assumed_state
    /\ switch.last_updated # None
    /\ switch.last_updated # comm_marker

(***************************************************************************)
(* C17: in every reachable state, an entity whose assumed_state is false   *)
(* has state on or off (never unknown), has as last_updated the marker of  *)
(* its most recent update() that found a record, and has state, icon and   *)
(* mode (switch) / activated (mode switch) exactly as derived from the     *)
(* record which that update() read.                                        *)
(***************************************************************************)
C17_ConfirmedStateIsFaithful ==
    \A e \in Entities :
        ~Ent(e).assumed_state =>
            /\ Ent(e).state \in {STATE_ON, STATE_OFF}
            /\ last_poll.ent = e
            /\ last_poll.read # <<>>
            /\ LET rec == last_poll.read[1].record
               IN /\ Ent(e).last_updated = last_poll.read[1].marker
                  /\ Ent(e).state = DerivedState(e, rec)
                  /\ Ent(e).icon = IconOf(e, DerivedState(e, rec))
                  /\ e = "switch" =>
                         switch.mode = (IF "mode" \in DOMAIN rec THEN rec["mode"] ELSE None)
                  /\ e = "modeswitch" =>
                         modeswitch.activated =
                             (IF "value" \in DOMAIN rec THEN rec["value"] ELSE None)

\* reached: a confirmed "on" that a later poll without a record, under another
\* marker, has left in place
C17_Witness ==
    /\ Done("switch", "update", "no_data")
    /\ ~switch.assumed_state
    /\ switch.state = STATE_ON
    /\ last_poll.read = <<[marker |-> Timestamp(1),
                           record |-> SensorRecord("EIN", "AUTO", "Pump 1")]>>
    /\ comm_marker # Timestamp(1)

(***************************************************************************)
(* C18: an update() that passes the marker check and finds no record does  *)
(* not change last_updated, and last_updated, once set, is the marker of   *)
(* the latest update() that read a record; so, after such an update(), the *)
(* next update() under the same marker looks the record up again, and if   *)
(* the record is now there applies it and clears assumed_state; an entity  *)
(* that has never read a record looks it up at every update() for which    *)
(* the collaborator reports a marker.                                      *)
(***************************************************************************)
C18_MissedRecordIsRetried ==
    [][\A e \in Entities :
          /\ Did(e, "update", "no_data") => Ent(e)'.last_updated = Ent(e).last_updated
          /\ Ent(e)'.last_updated # None =>
                 /\ last_poll'.ent = e
                 /\ last_poll'.read # <<>>
                 /\ Ent(e)'.last_updated = last_poll'.read[1].marker
          /\ (/\ ret'.ent = e /\ ret'.op = "update"
              /\ ret'.outcome # "raised_last_updated"
              /\ \/ last_poll.outcome = "no_data" /\ last_poll.marker = comm_marker
                 \/ last_poll.ent = e /\ last_poll.read = <<>> /\ comm_marker # None) =>
                 /\ Len(calls') = 2
                 /\ calls'[2].name = "data.get"
                 /\ ret'.outcome \in {"no_data", "updated", "raised_data"}
                 /\ (calls'[2].result = "ok" /\ TheBlnetId \in DOMAIN comm_data) =>
                        /\ ret'.outcome = "updated"
                        /\ Ent(e)'.assumed_state = FALSE
                        /\ Ent(e)'.last_updated = comm_marker]_vars

\* reached: a record applied by the poll that followed, under the same marker,
\* a poll which had found none
C18_Witness ==
    /\ Done("switch", "update", "updated")
    /\ last_poll.prev = "no_data"
    /\ last_poll.marker = comm_marker
    /\ ~switch.assumed_state
    /\ switch.last_updated = comm_marker

(***************************************************************************)
(* C19: turn_on() and turn_off() of both entities send their one command   *)
(* before they write any field: when the command raises, every field of    *)
(* the entity is as it was before the call and the error reaches the       *)
(* caller; a turn_on() or turn_off() step changes a field of the entity    *)
(* only when its command has returned.                                     *)
(***************************************************************************)
C19_DispatchBeforeWrite ==
    [][\A e \in Entities :
          (ret'.ent = e /\ ret'.op \in {"turn_on", "turn_off"}) =>
              /\ Len(calls') = 1
              /\ calls'[1].name \in Commands
              /\ calls'[1].result = "raise" =>
                     /\ Ent(e)' = Ent(e)
                     /\ ret'.outcome = "raised"
              /\ Ent(e)' # Ent(e) => calls'[1].result = "ok"]_vars

\* reached: a failed turn_off() of the mode switch, which still shows the
\* automatic mode it had polled
C19_Witness ==
    /\ Done("modeswitch", "turn_off", "raised")
    /\ calls = <<Call("turn_on", TheSwitchId, "raise")>>
    /\ modeswitch.state = STATE_ON
    /\ modeswitch.icon = "mdi:cog"
    /\ ~modeswitch.assumed_state

====
